---- MODULE Spec2Model ----
(***************************************************************************)
(* Model of src/app.py: the key normalizer clean_key_func, the             *)
(* reconciliation process_data, the exporter                               *)
(* convert_df_to_excel_with_highlight and the main script that calls them. *)
(*                                                                         *)
(* Text is a sequence of one-character strings.  A cell value is a record  *)
(* [k, s, n]: k = "null" (None / NaN), k = "str" (text s) or k = "float"   *)
(* (the whole-number float n.0).  A DataFrame is [cols, rows]: the column  *)
(* labels and the rows, each row one cell per column.  DataFrames live in  *)
(* a heap and Python variables hold references into it, so that what       *)
(* DataFrame.copy() does is part of the model.                             *)
(***************************************************************************)
EXTENDS Integers, Sequences, FiniteSets, TLC

VARIABLES
    pc,              \* position of the main script / process_data
    heap,            \* sequence of DataFrames; a reference is an index
    df_main,         \* reference: the main table read at line 114
    df_index,        \* reference: the reference table read at line 115
    index_dict,      \* line 50
    df_result,       \* reference held by process_data, NoRef before line 53
    main_keys,       \* line 57
    new_e_column,    \* line 60
    highlight_mask,  \* line 61
    result_df,       \* reference bound at line 122, NoRef before
    mask,            \* bound at line 122
    excel_data,      \* line 139: the exported sheet, NoSheet before
    st_error,        \* TRUE once st.error (line 150) has been called
    download,        \* TRUE once st.download_button (line 142) is offered
    main0,           \* history: the main table as uploaded
    ref0,            \* history: the reference table as uploaded
    kpc,             \* normalizer harness: position
    kin,             \* normalizer harness: the input value
    kout,            \* normalizer harness: clean_key_func(kin)
    kout2            \* normalizer harness: clean_key_func(kout)

vars == <<pc, heap, df_main, df_index, index_dict, df_result, main_keys,
          new_e_column, highlight_mask, result_df, mask, excel_data,
          st_error, download, main0, ref0, kpc, kin, kout, kout2>>

progVars == <<pc, heap, df_main, df_index, index_dict, df_result, main_keys,
              new_e_column, highlight_mask, result_df, mask, excel_data,
              st_error, download, main0, ref0>>

keyVars == <<kpc, kin, kout, kout2>>

----------------------------------------------------------------------------
(* Bounds *)

MaxLen == 5
MaxMainRows == 2
MaxRefRows == 2
MaxMainCols == 6
MaxRefCols == 2

----------------------------------------------------------------------------
(* Values *)

Null == [k |-> "null", s |-> <<>>, n |-> 0]
Str(s) == [k |-> "str", s |-> s, n |-> 0]
Float(n) == [k |-> "float", s |-> <<>>, n |-> n]

NoRef == 0
NoSheet == <<>>

Alphabet == {" ", "a", "n", "N", ".", "0"}

RECURSIVE StringsOfLen(_)
StringsOfLen(n) ==
    IF n = 0 THEN {<<>>}
    ELSE {<<c>> \o t : c \in Alphabet, t \in StringsOfLen(n - 1)}

Strings == UNION {StringsOfLen(n) : n \in 0..MaxLen}

Floats == {Float(0), Float(1), Float(10)}

Scalars == {Null} \cup {Str(s) : s \in Strings} \cup Floats

----------------------------------------------------------------------------
(* Python built-ins used by clean_key_func *)

DigitChar(d) == <<"0", "1", "2", "3", "4", "5", "6", "7", "8", "9">>[d + 1]

RECURSIVE Digits(_)
Digits(n) ==
    IF n < 10 THEN <<DigitChar(n)>>
    ELSE Digits(n \div 10) \o <<DigitChar(n % 10)>>

\* pd.isna(val) or val is None
isna(val) == val.k = "null"

\* str(val): text is itself, the whole float n.0 prints as "n.0"
str(val) ==
    IF val.k = "str" THEN val.s
    ELSE IF val.k = "float" THEN Digits(val.n) \o <<".", "0">>
    ELSE <<"N", "o", "n", "e">>

isspace(c) == c \in {" ", "\t", "\n"}

RECURSIVE lstrip(_)
lstrip(s) ==
    IF s = <<>> THEN s
    ELSE IF isspace(Head(s)) THEN lstrip(Tail(s))
    ELSE s

RECURSIVE rstrip(_)
rstrip(s) ==
    IF s = <<>> THEN s
    ELSE IF isspace(s[Len(s)]) THEN rstrip(SubSeq(s, 1, Len(s) - 1))
    ELSE s

strip(s) == rstrip(lstrip(s))

upper_char(c) ==
    CASE c = "a" -> "A"
      [] c = "n" -> "N"
      [] OTHER -> c

upper(s) == IF s = <<>> THEN <<>> ELSE [i \in 1..Len(s) |-> upper_char(s[i])]

endswith(s, suffix) ==
    /\ Len(s) >= Len(suffix)
    /\ SubSeq(s, Len(s) - Len(suffix) + 1, Len(s)) = suffix

DotZero == <<".", "0">>
NAN == <<"N", "A", "N">>

\* clean_key_func without the trim (mutation)
clean_key_func_nostrip(val) ==
    IF isna(val) THEN <<>>
    ELSE LET s  == upper(str(val))
             s2 == IF endswith(s, DotZero) THEN SubSeq(s, 1, Len(s) - 2) ELSE s
         IN  IF s2 = NAN THEN <<>> ELSE s2

\* lines 22-40
clean_key_func(val) ==
    IF isna(val) THEN <<>>
    ELSE LET s  == upper(strip(str(val)))
             s2 == IF endswith(s, DotZero) THEN SubSeq(s, 1, Len(s) - 2) ELSE s
         IN  IF s2 = NAN THEN <<>> ELSE s2

----------------------------------------------------------------------------
(* DataFrames *)

NCols(t) == Len(t.cols)
NRows(t) == Len(t.rows)

\* iloc[:, j] accepts j when weaker bound j <= shape[1] is used (mutation)
InBounds_offbyone(t, j) == j <= NCols(t)

\* iloc[:, j] raises IndexError unless 0 <= j < shape[1]
InBounds(t, j) == j < NCols(t)

\* df.iloc[:, j] for a j that is in bounds (a missing cell reads as Null
\* only where a mutation lets an out-of-bounds j through)
iloc_col(t, j) ==
    [i \in 1..NRows(t) |->
        IF j + 1 <= Len(t.rows[i]) THEN t.rows[i][j + 1] ELSE Null]

\* Series.apply(clean_key_func)
apply_clean(col) == [i \in 1..Len(col) |-> clean_key_func(col[i])]

\* d[k] = v keeping the value already stored under k (mutation)
dict_put_keep(d, k, v) ==
    [x \in DOMAIN d \cup {k} |-> IF x \in DOMAIN d THEN d[x] ELSE v]

\* d[k] = v
dict_put(d, k, v) ==
    [x \in DOMAIN d \cup {k} |-> IF x = k THEN v ELSE d[x]]

EmptyDict == [x \in {} |-> Null]

\* dict(zip(keys, vals)): the pairs are inserted in row order
RECURSIVE dict_zip(_, _, _)
dict_zip(keys, vals, n) ==
    IF n = 0 THEN EmptyDict
    ELSE dict_put(dict_zip(keys, vals, n - 1), keys[n], vals[n])

\* main_df.copy() returning the same object (mutation)
DataFrame_copy_alias(h, r) == [heap |-> h, ref |-> r]

\* main_df.copy(): a new DataFrame with the same labels and cells
DataFrame_copy(h, r) == [heap |-> Append(h, h[r]), ref |-> Len(h) + 1]

\* f'Col_{n}'
PadName(n) == <<"C", "o", "l", "_">> \o Digits(n)

\* df[name] = None: a new last column, or the existing column of that label
setitem_none(t, name) ==
    IF \E j \in 1..NCols(t) : t.cols[j] = name
    THEN [t EXCEPT !.rows =
            [i \in 1..NRows(t) |->
                [j \in 1..NCols(t) |->
                    IF t.cols[j] = name THEN Null ELSE t.rows[i][j]]]]
    ELSE [cols |-> Append(t.cols, name),
          rows |-> [i \in 1..NRows(t) |-> Append(t.rows[i], Null)]]

\* df.iloc[:, j] = vals written back to front (mutation)
iloc_set_col_reversed(t, j, vals) ==
    [t EXCEPT !.rows =
        [i \in 1..NRows(t) |->
            [t.rows[i] EXCEPT ![j + 1] = vals[NRows(t) + 1 - i]]]]

\* df.iloc[:, j] = vals also clearing the column before it (mutation)
iloc_set_col_wide(t, j, vals) ==
    [t EXCEPT !.rows =
        [i \in 1..NRows(t) |->
            [t.rows[i] EXCEPT ![j + 1] = vals[i], ![j] = vals[i]]]]

\* df.iloc[:, j] = vals
iloc_set_col(t, j, vals) ==
    [t EXCEPT !.rows =
        [i \in 1..NRows(t) |-> [t.rows[i] EXCEPT ![j + 1] = vals[i]]]]

----------------------------------------------------------------------------
(* process_data, lines 43-80 *)

\* the loop body with the empty key never looked up (mutation)
match_row_skip_empty(d, key) ==
    IF key # <<>> /\ key \in DOMAIN d
    THEN [value |-> d[key], hit |-> TRUE]
    ELSE [value |-> Str(key), hit |-> FALSE]

\* lines 64-71: what one iteration appends to new_e_column / highlight_mask
match_row(d, key) ==
    IF key \in DOMAIN d
    THEN [value |-> d[key], hit |-> TRUE]
    ELSE [value |-> Str(key), hit |-> FALSE]

\* line 57
composite_keys(t) ==
    LET a == apply_clean(iloc_col(t, 0))
        d == apply_clean(iloc_col(t, 3))
    IN  [i \in 1..NRows(t) |-> a[i] \o d[i]]

\* lines 46-50
build_index(t) ==
    dict_zip(apply_clean(iloc_col(t, 0)), iloc_col(t, 1), NRows(t))

----------------------------------------------------------------------------
(* convert_df_to_excel_with_highlight, lines 83-108 *)

\* df.to_excel(writer, index=False): a header row, then the data rows;
\* a missing value is written as the empty na_rep
to_excel(t) ==
    <<[j \in 1..NCols(t) |-> [v |-> Str(t.cols[j]), fmt |-> "header"]]>>
    \o [i \in 1..NRows(t) |->
          [j \in 1..NCols(t) |->
              [v   |-> IF isna(t.rows[i][j]) THEN Str(<<>>) ELSE t.rows[i][j],
               fmt |-> "none"]]]

\* the loop body formatting the whole row (mutation)
highlight_whole_row(sheet, t, idx) ==
    [sheet EXCEPT ![idx + 2] =
        [j \in 1..NCols(t) |-> [v |-> sheet[idx + 2][j].v, fmt |-> "yellow"]]]

\* lines 101-105: worksheet.write(idx + 1, 4, value_to_write, yellow_format)
highlight(sheet, t, idx) ==
    LET value_to_write == t.rows[idx + 1][5]
    IN  [sheet EXCEPT ![idx + 2][5] =
            [v   |-> IF isna(value_to_write) THEN Str(<<>>) ELSE value_to_write,
             fmt |-> "yellow"]]

\* lines 99-105: for idx, is_match in enumerate(mask), n iterations done
RECURSIVE highlight_loop(_, _, _, _)
highlight_loop(sheet, t, m, n) ==
    IF n = 0 THEN sheet
    ELSE LET prev == highlight_loop(sheet, t, m, n - 1)
         IN  IF m[n] THEN highlight(prev, t, n - 1) ELSE prev

convert_df_to_excel_with_highlight(t, m) ==
    highlight_loop(to_excel(t), t, m, Len(m))

----------------------------------------------------------------------------
(* The uploaded tables *)

\* a cell outside the key columns: its own text, by position
Marker(tag, i, j) == Str(<<tag>> \o Digits(i) \o Digits(j))

MainKeyA == {Null, Str(<<"a", " ">>)}
MainKeyD == {Null, Str(<<"1", ".", "0">>)}
RefKeys == {Null, Str(<<"a", "1">>), Str(<<" ", "A", "1", ".", "0">>)}
\* column 1 of reference row i: its own text, or an empty cell in row blank
RefVal(i, blank) == IF i = blank THEN Null ELSE Marker("V", i, 1)

\* the labels read from the header row; with clash the second column carries
\* the label the padding loop would synthesize next (labels are read by the
\* padding loop alone, so only tables it pads are drawn with such a label)
Header(n, clash) ==
    [j \in 1..n |-> IF clash /\ j = 2 THEN PadName(n) ELSE <<"h">> \o Digits(j - 1)]

MainTables ==
    UNION {
      { [cols |-> Header(n, clash),
         rows |-> [i \in 1..m |->
                     [j \in 1..n |->
                         IF j = 1 THEN a[i]
                         ELSE IF j = 4 THEN d[i]
                         ELSE Marker("x", i, j - 1)]]] :
          a \in [1..m -> MainKeyA], d \in [1..m -> MainKeyD],
          clash \in IF n < 5 THEN BOOLEAN ELSE {FALSE} }
      : m \in 0..MaxMainRows, n \in 3..MaxMainCols }

RefTables ==
    UNION {
      { [cols |-> Header(n, FALSE),
         rows |-> [i \in 1..m |->
                     [j \in 1..n |->
                         IF j = 1 THEN k[i]
                         ELSE IF j = 2 THEN RefVal(i, blank)
                         ELSE Marker("y", i, j - 1)]]] :
          k \in [1..m -> RefKeys], blank \in 0..m }
      : m \in 0..MaxRefRows, n \in 1..MaxRefCols }

----------------------------------------------------------------------------
(* The main script, lines 111-151, from the click on the button *)

KeyIdle ==
    /\ kpc = "idle"
    /\ kin = Null
    /\ kout = <<>>
    /\ kout2 = <<>>

Init ==
    /\ main0 \in MainTables
    /\ ref0 \in RefTables
    /\ heap = <<main0, ref0>>
    /\ df_main = 1
    /\ df_index = 2
    /\ pc = "build_index"
    /\ index_dict = EmptyDict
    /\ df_result = NoRef
    /\ main_keys = <<>>
    /\ new_e_column = <<>>
    /\ highlight_mask = <<>>
    /\ result_df = NoRef
    /\ mask = <<>>
    /\ excel_data = NoSheet
    /\ st_error = FALSE
    /\ download = FALSE
    /\ KeyIdle

\* lines 46-50; an IndexError leaves process_data for the handler at 149
BuildIndex ==
    /\ pc = "build_index"
    /\ LET t == heap[df_index]
       IN  IF InBounds(t, 0) /\ InBounds(t, 1)
           THEN /\ index_dict' = build_index(t)
                /\ pc' = "copy"
           ELSE /\ pc' = "except"
                /\ UNCHANGED index_dict
    /\ UNCHANGED <<heap, df_main, df_index, df_result, main_keys, new_e_column,
                   highlight_mask, result_df, mask, excel_data, st_error,
                   download, main0, ref0, keyVars>>

\* line 53
CopyMain ==
    /\ pc = "copy"
    /\ LET c == DataFrame_copy(heap, df_main)
       IN  /\ heap' = c.heap
           /\ df_result' = c.ref
    /\ pc' = "keys"
    /\ UNCHANGED <<df_main, df_index, index_dict, main_keys, new_e_column,
                   highlight_mask, result_df, mask, excel_data, st_error,
                   download, main0, ref0, keyVars>>

\* line 57
MainKeys ==
    /\ pc = "keys"
    /\ LET t == heap[df_result]
       IN  IF InBounds(t, 0) /\ InBounds(t, 3)
           THEN /\ main_keys' = composite_keys(t)
                /\ pc' = "match"
           ELSE /\ pc' = "except"
                /\ UNCHANGED main_keys
    /\ UNCHANGED <<heap, df_main, df_index, index_dict, df_result, new_e_column,
                   highlight_mask, result_df, mask, excel_data, st_error,
                   download, main0, ref0, keyVars>>

\* lines 60-71
Match ==
    /\ pc = "match"
    /\ new_e_column' =
          [i \in 1..Len(main_keys) |-> match_row(index_dict, main_keys[i]).value]
    /\ highlight_mask' =
          [i \in 1..Len(main_keys) |-> match_row(index_dict, main_keys[i]).hit]
    /\ pc' = "pad"
    /\ UNCHANGED <<heap, df_main, df_index, index_dict, df_result, main_keys,
                   result_df, mask, excel_data, st_error, download, main0, ref0,
                   keyVars>>

\* lines 75-76: one iteration of the while loop
Pad ==
    /\ pc = "pad"
    /\ NCols(heap[df_result]) < 5
    /\ heap' = [heap EXCEPT ![df_result] =
                   setitem_none(heap[df_result], PadName(NCols(heap[df_result])))]
    /\ UNCHANGED <<pc, df_main, df_index, index_dict, df_result, main_keys,
                   new_e_column, highlight_mask, result_df, mask, excel_data,
                   st_error, download, main0, ref0, keyVars>>

\* lines 78-80 and the binding of the returned pair at line 122
WriteE ==
    /\ pc = "pad"
    /\ ~(NCols(heap[df_result]) < 5)
    /\ heap' = [heap EXCEPT ![df_result] =
                   iloc_set_col(heap[df_result], 4, new_e_column)]
    /\ result_df' = df_result
    /\ mask' = highlight_mask
    /\ pc' = "export"
    /\ UNCHANGED <<df_main, df_index, index_dict, df_result, main_keys,
                   new_e_column, highlight_mask, excel_data, st_error, download,
                   main0, ref0, keyVars>>

\* line 139
Export ==
    /\ pc = "export"
    /\ excel_data' = convert_df_to_excel_with_highlight(heap[result_df], mask)
    /\ pc' = "download"
    /\ UNCHANGED <<heap, df_main, df_index, index_dict, df_result, main_keys,
                   new_e_column, highlight_mask, result_df, mask, st_error,
                   download, main0, ref0, keyVars>>

\* lines 142-147
Download ==
    /\ pc = "download"
    /\ download' = TRUE
    /\ pc' = "done"
    /\ UNCHANGED <<heap, df_main, df_index, index_dict, df_result, main_keys,
                   new_e_column, highlight_mask, result_df, mask, excel_data,
                   st_error, main0, ref0, keyVars>>

\* lines 149-151
Except ==
    /\ pc = "except"
    /\ st_error' = TRUE
    /\ pc' = "reported"
    /\ UNCHANGED <<heap, df_main, df_index, index_dict, df_result, main_keys,
                   new_e_column, highlight_mask, result_df, mask, excel_data,
                   download, main0, ref0, keyVars>>

Next ==
    \/ BuildIndex
    \/ CopyMain
    \/ MainKeys
    \/ Match
    \/ Pad
    \/ WriteE
    \/ Export
    \/ Download
    \/ Except

Spec == Init /\ [][Next]_vars

----------------------------------------------------------------------------
(* The normalizer on its own: clean_key_func applied to a value, and again *)
(* to its own result                                                       *)

ProgIdle ==
    /\ main0 = [cols |-> <<>>, rows |-> <<>>]
    /\ ref0 = [cols |-> <<>>, rows |-> <<>>]
    /\ heap = <<>>
    /\ df_main = NoRef
    /\ df_index = NoRef
    /\ pc = "idle"
    /\ index_dict = EmptyDict
    /\ df_result = NoRef
    /\ main_keys = <<>>
    /\ new_e_column = <<>>
    /\ highlight_mask = <<>>
    /\ result_df = NoRef
    /\ mask = <<>>
    /\ excel_data = NoSheet
    /\ st_error = FALSE
    /\ download = FALSE

KeyInit ==
    /\ ProgIdle
    /\ kpc = "call"
    /\ kin \in Scalars
    /\ kout = <<>>
    /\ kout2 = <<>>

Normalize ==
    /\ kpc = "call"
    /\ kout' = clean_key_func(kin)
    /\ kpc' = "once"
    /\ UNCHANGED <<kin, kout2, progVars>>

Renormalize ==
    /\ kpc = "once"
    /\ kout2' = clean_key_func(Str(kout))
    /\ kpc' = "twice"
    /\ UNCHANGED <<kin, kout, progVars>>

KeyNext ==
    \/ Normalize
    \/ Renormalize

KeySpec == KeyInit /\ [][KeyNext]_vars

----------------------------------------------------------------------------
(* What the properties speak of *)

\* process_data has returned and its pair is bound (line 122)
Returned == pc \in {"export", "download", "done"}

\* the result table the caller holds
RT == heap[result_df]

\* the run failed: control is in, or past, the handler of lines 149-151
Failed == pc \in {"except", "reported"}

\* clean_key(row[0]) + clean_key(row[3]) of a main-table row
CompositeKey(row) == clean_key_func(row[1]) \o clean_key_func(row[4])

\* the reference rows whose normalized column 0 is the key
RefRowsOf(key) ==
    {k \in 1..NRows(ref0) : clean_key_func(ref0.rows[k][1]) = key}

Max(S) == CHOOSE x \in S : \A y \in S : y <= x

\* text s without its leading and trailing white space, stated by position
Trimmed(s) ==
    LET solid == {i \in 1..Len(s) : ~isspace(s[i])}
    IN  IF solid = {} THEN <<>>
        ELSE SubSeq(s, CHOOSE i \in solid : \A k \in solid : i <= k, Max(solid))

\* text s without one trailing ".0"
DropDotZero(s) ==
    IF Len(s) >= 2 /\ s[Len(s) - 1] = "." /\ s[Len(s)] = "0"
    THEN SubSeq(s, 1, Len(s) - 2)
    ELSE s

----------------------------------------------------------------------------
(* C1: after process_data returns, for every main row i (rows whose        *)
(* columns 0 and 3 are both empty included), mask[i] is true exactly when  *)
(* the row's composite key is a key of the built index, and when mask[i]   *)
(* is false column 4 of result row i holds the composite key.              *)
C1_MaskIffKeyInIndex ==
    Returned =>
        /\ DOMAIN index_dict =
              {clean_key_func(ref0.rows[k][1]) : k \in 1..NRows(ref0)}
        /\ \A i \in 1..NRows(main0) :
              LET key == CompositeKey(main0.rows[i])
              IN  /\ mask[i] <=> key \in DOMAIN index_dict
                  /\ ~mask[i] => RT.rows[i][5] = Str(key)

\* an all-empty row that matched the empty index key, beside an unmatched row
C1_Witness ==
    /\ Returned
    /\ \E i, j \in 1..NRows(main0) :
          /\ isna(main0.rows[i][1]) /\ isna(main0.rows[i][4])
          /\ mask[i]
          /\ ~mask[j]
          /\ CompositeKey(main0.rows[j]) # <<>>

(* C2: the index is last-one-wins on normalized keys: for every main row   *)
(* whose composite key is in the index, column 4 of the result row is the  *)
(* unmodified column-1 value of the last reference row whose normalized    *)
(* column 0 equals that key.                                               *)
C2_LastOneWins ==
    Returned =>
        \A i \in 1..NRows(main0) :
            LET key == CompositeKey(main0.rows[i])
            IN  RefRowsOf(key) # {} =>
                    RT.rows[i][5] = ref0.rows[Max(RefRowsOf(key))][2]

\* two reference rows, different raw keys and values, one normalized key,
\* which a main row probes
C2_Witness ==
    /\ Returned
    /\ \E i \in 1..NRows(main0) :
          \E k1, k2 \in RefRowsOf(CompositeKey(main0.rows[i])) :
              /\ k1 < k2
              /\ ref0.rows[k1][1] # ref0.rows[k2][1]
              /\ ref0.rows[k1][2] # ref0.rows[k2][2]

(* C3: clean_key_func is idempotent: normalizing a normalized key returns  *)
(* it unchanged.                                                           *)
C3_Idempotent == kpc = "twice" => kout2 = kout

(* C4: a main table with fewer than 5 columns does not make process_data   *)
(* fail: the result is padded with null columns up to position 4 and       *)
(* column 4 then holds the resolved value or the composite key.            *)
C4_ShortMainPadded ==
    (NCols(main0) < 5 /\ NCols(ref0) >= 2) =>
        /\ ~Failed
        /\ Returned =>
              /\ NCols(RT) = 5
              /\ \A i \in 1..NRows(main0) :
                    /\ \A j \in (NCols(main0) + 1)..4 : isna(RT.rows[i][j])
                    /\ RT.rows[i][5] = new_e_column[i]

(* C5: the result table has exactly the rows of the main table in the same *)
(* order, row i of the result deriving from row i of the main table, and   *)
(* the mask has the same length, mask[i] describing result row i.          *)
C5_RowsAligned ==
    Returned =>
        /\ NRows(RT) = NRows(main0)
        /\ Len(mask) = NRows(main0)
        /\ \A i \in 1..NRows(main0) :
              LET key == CompositeKey(main0.rows[i])
              IN  /\ \A j \in 1..NCols(main0) :
                        j # 5 => RT.rows[i][j] = main0.rows[i][j]
                  /\ mask[i] => RT.rows[i][5] = index_dict[key]
                  /\ ~mask[i] => RT.rows[i][5] = Str(key)

\* two rows or more, the first and the last with different outcomes
C5_Witness ==
    /\ Returned
    /\ NRows(main0) >= 2
    /\ mask[1] # mask[NRows(main0)]

(* C6: process_data does not mutate its inputs: at every point of the      *)
(* call, returned or raised, padded or not, the caller's main table has    *)
(* the columns and cells it was uploaded with, and so has the reference    *)
(* table.                                                                  *)
C6_InputsUnchanged ==
    /\ heap[df_main] = main0
    /\ heap[df_index] = ref0

\* a padded result whose column 4 has been written
C6_Witness ==
    /\ Returned
    /\ NCols(main0) < 5
    /\ NRows(main0) >= 1
    /\ NCols(RT) = 5

(* C7: in the exported sheet the yellow cells are exactly the column-4     *)
(* cells of the data rows i with mask[i] true; a yellow cell holds         *)
(* result[i][4], the empty string when that value is null.                 *)
C7_YellowIffMask ==
    excel_data # NoSheet =>
        /\ Len(excel_data) = NRows(RT) + 1
        /\ \A r \in 1..Len(excel_data) :
              /\ Len(excel_data[r]) = NCols(RT)
              /\ \A c \in 1..NCols(RT) :
                    /\ excel_data[r][c].fmt = "yellow" <=>
                          (r >= 2 /\ c = 5 /\ mask[r - 1])
                    /\ excel_data[r][c].fmt = "yellow" =>
                          excel_data[r][c].v =
                              IF isna(RT.rows[r - 1][5]) THEN Str(<<>>)
                              ELSE RT.rows[r - 1][5]

\* an exported sheet with a matched row whose value is null, a matched row
\* with a value and an unmatched row
C7_Witness ==
    /\ excel_data # NoSheet
    /\ \E i, j \in 1..NRows(RT) :
          /\ mask[i] /\ isna(RT.rows[i][5])
          /\ ~mask[j]

(* C8, as claimed: clean_key_func returns "" for null and for text whose   *)
(* trimmed upper-cased form is "" or "NAN", and otherwise the trimmed      *)
(* upper-cased text with one trailing ".0" removed.                        *)
C8_Original ==
    kpc # "call" =>
        LET core == upper(Trimmed(str(kin)))
        IN  kout = IF isna(kin) \/ core \in {<<>>, NAN} THEN <<>>
                   ELSE DropDotZero(core)

(* C8, amended: clean_key_func returns "" for null and for text whose      *)
(* trimmed upper-cased form, after one trailing ".0" is removed, is "" or  *)
(* "NAN"; otherwise it returns that form.                                  *)
C8_NormalForm ==
    kpc # "call" =>
        LET core == DropDotZero(upper(Trimmed(str(kin))))
        IN  kout = IF isna(kin) \/ core \in {<<>>, NAN} THEN <<>>
                   ELSE core

\* padded mixed-case text ending in ".0" has been normalized
C8_Witness ==
    /\ kpc = "once"
    /\ kin = Str(<<" ", "a", ".", "0", " ">>)
    /\ kout = <<"A">>

(* C9: a reference table with fewer than 2 columns ends the run in the     *)
(* error handler: process_data raises before an index, a result table or   *)
(* a mask exists, the handler reports the error, and nothing is exported   *)
(* or offered for download.                                                *)
C9_ShortReferenceFails ==
    NCols(ref0) < 2 =>
        /\ pc \in {"build_index", "except", "reported"}
        /\ pc = "reported" <=> st_error
        /\ index_dict = EmptyDict
        /\ df_result = NoRef
        /\ result_df = NoRef
        /\ mask = <<>>
        /\ new_e_column = <<>>
        /\ highlight_mask = <<>>
        /\ excel_data = NoSheet
        /\ ~download

\* the error of a one-column reference table has been reported
C9_Witness ==
    /\ NCols(ref0) < 2
    /\ NRows(ref0) >= 1
    /\ NRows(main0) >= 1
    /\ pc = "reported"
    /\ st_error

(* C10: process_data overwrites only column 4: for a main table of 5       *)
(* columns or more the result has the same columns, and every cell outside *)
(* column 4 equals the main table's, matched row or not.                   *)
C10_OnlyColumn4 ==
    (Returned /\ NCols(main0) >= 5) =>
        /\ RT.cols = main0.cols
        /\ \A i \in 1..NRows(main0) :
              /\ Len(RT.rows[i]) = NCols(main0)
              /\ \A j \in 1..NCols(main0) :
                    j # 5 => RT.rows[i][j] = main0.rows[i][j]

\* a table with a column after column 4, a matched and an unmatched row
C10_Witness ==
    /\ Returned
    /\ NCols(main0) >= 6
    /\ \E i, j \in 1..NRows(main0) : mask[i] /\ ~mask[j]

====
